---- MODULE Spec2Model ----
(***************************************************************************)
(* Execution contexts of connectome_manipulation/executors.py:             *)
(* SerialExecutor / serial_ctx, DaskExecutor / dask_ctx and in_context,    *)
(* driven by one driver thread, with the Dask pool completing the          *)
(* dispatched jobs asynchronously.                                         *)
(***************************************************************************)
EXTENDS Integers, Sequences, FiniteSets

VARIABLES
    pc,               \* driver position: start, created, body, drain; the scope is left
                      \* as exited (normally), aborted (the body raised) or failed
                      \* (the drain after the yield raised)
    parallel,         \* options.parallel
    result_hook,      \* TRUE iff a result hook was passed (result_hook is not None)
    executor_params,  \* the connection-parameter mapping handed to in_context
    ctx,              \* context manager returned by in_context: none, serial, dask
    clientOpens,      \* number of Client(**executor_params) constructions
    clientArgs,       \* keyword arguments the Client was constructed with
    clientCloses,     \* number of times the Client was closed
    jobs,             \* DaskExecutor._jobs: list of job handles (indices into future)
    last_processing,  \* DaskExecutor._last_processing
    now,              \* wall clock, in minutes
    future,           \* the pool's futures, one per executor.submit, in dispatch order
    finished,         \* pool-side order in which the futures completed
    tracked,          \* futures of the running as_completed iterator not yet yielded
    caller,           \* who runs the blocking process_jobs: none, submit, driver, exit
    calls,            \* history of the submit calls: what the driver passed
    hookLog,          \* history of the result hook's invocations
    released,         \* history of the release() calls: the handles released, in order
    outcome,          \* how the driver's last call ended: none, ok, raised
    raises,           \* number of calls of the driver that raised
    returned,         \* value returned by the last submit (0: None)
    lastPass          \* the latest process_jobs call: its call site, whether a list
                      \* was passed, whether it took the as_completed path ("drain")
                      \* or walked the list ("sweep"), and the length of hookLog
                      \* when it began

vars == <<pc, parallel, result_hook, executor_params, ctx, clientOpens, clientArgs,
          clientCloses, jobs, last_processing, now, future, finished, tracked, caller,
          calls, hookLog, released, outcome, raises, returned, lastPass>>

----------------------------------------------------------------------------
(* Bounds and input domains *)

MaxJobs == 3
MaxTime == 4

\* the splits the driver submits work for
Splits == {1, 2}
\* a task that returns, for each split, and a task that raises (it has no result)
Tasks == {[arg |-> x, ok |-> TRUE] : x \in Splits} \cup {[arg |-> 1, ok |-> FALSE]}

\* metadata the driver attaches to the job of a split
SplitMeta(x) == <<"split", x>>

ParamKeys == {"n_workers", "address"}
ParamStrings == {<<"4">>, <<"t", "c", "p">>}

\* connection-parameter mappings of the main specification
MainParams == {[k \in ParamKeys |-> IF k = "n_workers" THEN <<"4">> ELSE <<"t", "c", "p">>],
               [k \in ParamKeys |-> <<"t", "c", "p">>]}

\* parameter values of the parameter specification: what "key=value" can carry
WideStrings == {<<"4">>, <<"1", "2">>, <<"0", ".", "5">>, <<"-", "3">>,
                <<"t", "c", "p">>, <<>>}

----------------------------------------------------------------------------
(* Values *)

\* DaskExecutor._PROCESS_INTERVAL = timedelta(minutes=1)
PROCESS_INTERVAL == 1

\* func(*args): what running a task returns
TaskResult(t) == t.arg * 10

Range(s) == {s[i] : i \in DOMAIN s}

StrVal(s) == [type |-> "str", text |-> s, num |-> 0]
IntVal(n) == [type |-> "int", text |-> <<>>, num |-> n]

DigitChars == <<"0", "1", "2", "3", "4", "5", "6", "7", "8", "9">>

\* str.isdecimal(): non-empty and every character a decimal digit
IsDecimal(s) == s # <<>> /\ \A i \in DOMAIN s : s[i] \in Range(DigitChars)

DigitValue(c) == (CHOOSE i \in DOMAIN DigitChars : DigitChars[i] = c) - 1

\* int(val) on a string of decimal digits
RECURSIVE IntOf(_)
IntOf(s) ==
    IF s = <<>> THEN 0
    ELSE IntOf(SubSeq(s, 1, Len(s) - 1)) * 10 + DigitValue(s[Len(s)])

FloatVal(s) == [type |-> "float", text |-> s, num |-> 0]

\* int(val) does not raise ValueError: digits only (after isdecimal() it never does)
IntParses(s) == s # <<>> /\ \A i \in DOMAIN s : s[i] \in Range(DigitChars)

\* the loop of dask_ctx over executor_params.items()
NormaliseValue(v) ==
    IF v.type = "str" /\ IsDecimal(v.text)
    THEN IF IntParses(v.text) THEN IntVal(IntOf(v.text)) ELSE FloatVal(v.text)
    ELSE v

NormaliseParams(p) == [k \in DOMAIN p |-> NormaliseValue(p[k])]

----------------------------------------------------------------------------
(* The pool's futures *)

\* Future.done(): finished, or failed with the task's exception
Done(j) == future[j].status # "pending"

\* Future.result() raises the task's exception
Failed(j) == future[j].status = "error"

\* position of a completed future in the order of completion
Pos(j) == CHOOSE i \in DOMAIN finished : finished[i] = j

\* (variant: the tracked future that was submitted first)
NextSubmitted(tr) ==
    CHOOSE j \in tr : Done(j) /\ \A k \in tr : Done(k) => j <= k

\* (variant: the iterator hands out the newest tracked future, done or not)
NextTrackedLast(tr) ==
    CHOOSE j \in tr : \A k \in tr : j >= k

\* next(as_completed(...)): the tracked future that completed first
NextCompleted(tr) ==
    CHOOSE j \in tr : Done(j) /\ \A k \in tr : Done(k) => Pos(j) <= Pos(k)

\* what the hook is called with: (job.result(), job.extra_data)
HookEntry(j) == [job |-> j, result |-> future[j].value, extra |-> future[j].extra_data]

----------------------------------------------------------------------------
(* DaskExecutor.process_jobs *)

\* the jobs argument: None, or a list of handles
NoneArg == [none |-> TRUE, list |-> <<>>]
ListArg(l) == [none |-> FALSE, list |-> l]

\* "if not jobs": None and the empty list are both falsy
Falsy(a) == a.none \/ a.list = <<>>

\* state the loop works on, after "self._jobs = []"
LoopStart(log, rel) == [jobs |-> <<>>, hookLog |-> log, released |-> rel, raised |-> FALSE]

\* (variant: a handle that is not done is not put back)
LoopBodyDropsPending(j, st) ==
    IF Done(j)
    THEN IF result_hook /\ Failed(j)
         THEN [st EXCEPT !.raised = TRUE]
         ELSE [st EXCEPT
                 !.hookLog = IF result_hook THEN Append(@, HookEntry(j)) ELSE @,
                 !.released = Append(@, j)]
    ELSE st

\* (variant: a handle that is done is delivered, released and put back as well)
LoopBodyKeepsDone(j, st) ==
    IF Done(j)
    THEN IF result_hook /\ Failed(j)
         THEN [st EXCEPT !.raised = TRUE]
         ELSE [st EXCEPT
                 !.hookLog = IF result_hook THEN Append(@, HookEntry(j)) ELSE @,
                 !.released = Append(@, j),
                 !.jobs = Append(@, j)]
    ELSE [st EXCEPT !.jobs = Append(@, j)]

\* (variant: the exception of a failed job is swallowed)
LoopBodySwallows(j, st) ==
    IF Done(j)
    THEN [st EXCEPT
            !.hookLog = IF result_hook /\ ~Failed(j) THEN Append(@, HookEntry(j)) ELSE @,
            !.released = Append(@, j)]
    ELSE [st EXCEPT !.jobs = Append(@, j)]

\* one iteration of "for job in jobs" on handle j
LoopBody(j, st) ==
    IF Done(j)
    THEN IF result_hook /\ Failed(j)
         THEN [st EXCEPT !.raised = TRUE]
         ELSE [st EXCEPT
                 !.hookLog = IF result_hook THEN Append(@, HookEntry(j)) ELSE @,
                 !.released = Append(@, j)]
    ELSE [st EXCEPT !.jobs = Append(@, j)]

\* (variant: the list is walked from its end)
RECURSIVE SweepBackwards(_, _)
SweepBackwards(js, st) ==
    IF js = <<>> \/ st.raised THEN st
    ELSE SweepBackwards(SubSeq(js, 1, Len(js) - 1), LoopBody(js[Len(js)], st))

\* (variant: the done handles of the list are taken in completion order)
RECURSIVE SweepByCompletion(_, _)
SweepByCompletion(js, st) ==
    IF js = <<>> \/ st.raised THEN st
    ELSE LET d == {i \in DOMAIN js : Done(js[i])}
             i == IF d = {} THEN 1
                  ELSE CHOOSE x \in d : \A y \in d : Pos(js[x]) <= Pos(js[y])
         IN  SweepByCompletion(SubSeq(js, 1, i - 1) \o SubSeq(js, i + 1, Len(js)),
                               LoopBody(js[i], st))

\* the loop over an explicit list: stops at the first iteration that raises
RECURSIVE Sweep(_, _)
Sweep(js, st) ==
    IF js = <<>> \/ st.raised THEN st
    ELSE Sweep(Tail(js), LoopBody(Head(js), st))

\* (variant: the check fires as soon as the interval is reached)
DueAtInterval == now - last_processing >= PROCESS_INTERVAL

\* DaskExecutor._timed_process_jobs: the elapsed-time test
Due == now - last_processing > PROCESS_INTERVAL

\* (variant: process_jobs is called without an argument)
TimedArgNone(js) == NoneArg

\* DaskExecutor._timed_process_jobs: the argument of its process_jobs call
TimedArg(js) == ListArg(js)

----------------------------------------------------------------------------
(* Context selection and entry *)

\* (variant: the flag is ignored)
SelectAlwaysDask(p) == "dask"

\* in_context
SelectContext(p) == IF p THEN "dask" ELSE "serial"

Init ==
    /\ pc = "start"
    /\ parallel \in BOOLEAN
    /\ result_hook \in BOOLEAN
    /\ executor_params \in {[k \in ParamKeys |-> StrVal(m[k])] : m \in MainParams}
    /\ ctx = "none"
    /\ clientOpens = 0
    /\ clientArgs = <<>>
    /\ clientCloses = 0
    /\ jobs = <<>>
    /\ last_processing = 0
    /\ now = 0
    /\ future = <<>>
    /\ finished = <<>>
    /\ tracked = {}
    /\ caller = "none"
    /\ calls = <<>>
    /\ hookLog = <<>>
    /\ released = <<>>
    /\ outcome = "none"
    /\ raises = 0
    /\ returned = 0
    /\ lastPass = [by |-> "none", given |-> FALSE, kind |-> "none", from |-> 0]

\* the same start, with the wider parameter values
InitParams ==
    /\ pc = "start"
    /\ parallel \in BOOLEAN
    /\ result_hook \in BOOLEAN
    /\ executor_params \in [ParamKeys -> {StrVal(w) : w \in WideStrings}]
    /\ ctx = "none"
    /\ clientOpens = 0
    /\ clientArgs = <<>>
    /\ clientCloses = 0
    /\ jobs = <<>>
    /\ last_processing = 0
    /\ now = 0
    /\ future = <<>>
    /\ finished = <<>>
    /\ tracked = {}
    /\ caller = "none"
    /\ calls = <<>>
    /\ hookLog = <<>>
    /\ released = <<>>
    /\ outcome = "none"
    /\ raises = 0
    /\ returned = 0
    /\ lastPass = [by |-> "none", given |-> FALSE, kind |-> "none", from |-> 0]

\* in_context(options, params, result_hook): returns the context manager
InContext ==
    /\ pc = "start"
    /\ pc' = "created"
    /\ ctx' = SelectContext(parallel)
    /\ UNCHANGED <<parallel, result_hook, executor_params, clientOpens, clientArgs,
                   clientCloses, jobs, last_processing, now, future, finished, tracked,
                   caller, calls, hookLog, released, outcome, raises, returned, lastPass>>

\* "with in_context(...) as executor": the context manager runs up to its yield
Enter ==
    /\ pc = "created"
    /\ pc' = "body"
    /\ IF ctx = "dask"
       THEN /\ executor_params' = NormaliseParams(executor_params)
            /\ clientArgs' = executor_params'
            /\ clientOpens' = clientOpens + 1
            /\ jobs' = <<>>
            /\ last_processing' = now
       ELSE UNCHANGED <<executor_params, clientArgs, clientOpens, jobs, last_processing>>
    /\ UNCHANGED <<parallel, result_hook, ctx, clientCloses, now, future, finished,
                   tracked, caller, calls, hookLog, released, outcome, raises, returned,
                   lastPass>>

----------------------------------------------------------------------------
(* SerialExecutor *)

\* (variant: the task's exception is caught)
SerialRaisesNever(t) == FALSE

\* SerialExecutor.submit: func(*args) raises, and nothing catches it
SerialRaises(t) == ~t.ok

\* (variant: the hook is not called)
SerialRunNoHook(t, e, log) == [hookLog |-> log, returned |-> TaskResult(t)]

\* SerialExecutor.submit: the hook call and the return value, for a task that returned
SerialRun(t, e, log) ==
    [hookLog  |-> IF result_hook
                  THEN Append(log, [job |-> Len(calls) + 1, result |-> TaskResult(t),
                                    extra |-> e])
                  ELSE log,
     returned |-> TaskResult(t)]

\* SerialExecutor.submit(func, args, extra_data)
SerialSubmit(t, e) ==
    /\ pc = "body"
    /\ ctx = "serial"
    /\ Len(calls) < MaxJobs
    /\ calls' = Append(calls, [arg |-> t.arg, ok |-> t.ok, extra |-> e])
    /\ IF ~SerialRaises(t)
       THEN /\ hookLog' = SerialRun(t, e, hookLog).hookLog
            /\ returned' = SerialRun(t, e, hookLog).returned
            /\ outcome' = "ok"
            /\ UNCHANGED raises
       ELSE /\ outcome' = "raised"
            /\ raises' = raises + 1
            /\ UNCHANGED <<hookLog, returned>>
    /\ UNCHANGED <<pc, parallel, result_hook, executor_params, ctx, clientOpens,
                   clientArgs, clientCloses, jobs, last_processing, now, future,
                   finished, tracked, caller, released, lastPass>>

----------------------------------------------------------------------------
(* DaskExecutor *)

\* (variant: submit forgets to append after the timed check)
ReturnNoAppend(who, st) ==
    /\ hookLog' = st.hookLog
    /\ released' = st.released
    /\ tracked' = {}
    /\ caller' = "none"
    /\ outcome' = "ok"
    /\ UNCHANGED raises
    /\ jobs' = st.jobs
    /\ IF who = "submit"
       THEN /\ last_processing' = now
            /\ returned' = 0
            /\ pc' = "body"
       ELSE /\ UNCHANGED <<last_processing, returned>>
            /\ pc' = IF who = "exit" THEN "exited" ELSE "body"

\* return from a process_jobs call that ran to its end, for each call site
Return(who, st) ==
    /\ hookLog' = st.hookLog
    /\ released' = st.released
    /\ tracked' = {}
    /\ caller' = "none"
    /\ outcome' = "ok"
    /\ UNCHANGED raises
    /\ IF who = "submit"
       THEN /\ last_processing' = now
            /\ jobs' = Append(st.jobs, Len(future'))
            /\ returned' = 0
            /\ pc' = "body"
       ELSE /\ jobs' = st.jobs
            /\ UNCHANGED <<last_processing, returned>>
            /\ pc' = IF who = "exit" THEN "exited" ELSE "body"

\* a task's exception leaves process_jobs, for each call site
Raise(who, st) ==
    /\ hookLog' = st.hookLog
    /\ released' = st.released
    /\ jobs' = st.jobs
    /\ tracked' = {}
    /\ caller' = "none"
    /\ outcome' = "raised"
    /\ raises' = raises + 1
    /\ UNCHANGED <<last_processing, returned>>
    /\ pc' = IF who = "exit" THEN "failed" ELSE "body"

\* (variant: the as_completed path waits even when there is nothing to wait for)
ProcessJobsWaits(who, a) ==
    /\ lastPass' = [by |-> who, given |-> ~a.none,
                    kind |-> IF Falsy(a) THEN "drain" ELSE "sweep",
                    from |-> Len(hookLog)]
    /\ IF Falsy(a)
       THEN /\ tracked' = Range(jobs)
            /\ jobs' = <<>>
            /\ caller' = who
            /\ pc' = "drain"
            /\ UNCHANGED <<hookLog, released, last_processing, outcome, raises,
                           returned>>
       ELSE LET st == Sweep(a.list, LoopStart(hookLog, released))
            IN  IF st.raised THEN Raise(who, st) ELSE Return(who, st)

\* process_jobs(a) up to the point where it returns, raises or has to wait
ProcessJobs(who, a) ==
    /\ lastPass' = [by |-> who, given |-> ~a.none,
                    kind |-> IF Falsy(a) THEN "drain" ELSE "sweep",
                    from |-> Len(hookLog)]
    /\ IF Falsy(a)
       THEN IF jobs = <<>>
            THEN Return(who, LoopStart(hookLog, released))
            ELSE /\ tracked' = Range(jobs)
                 /\ jobs' = <<>>
                 /\ caller' = who
                 /\ pc' = "drain"
                 /\ UNCHANGED <<hookLog, released, last_processing, outcome, raises,
                                returned>>
       ELSE LET st == Sweep(a.list, LoopStart(hookLog, released))
            IN  IF st.raised THEN Raise(who, st) ELSE Return(who, st)

\* DaskExecutor.submit(func, args, extra_data)
DaskSubmit(t, e) ==
    /\ pc = "body"
    /\ ctx = "dask"
    /\ Len(future) < MaxJobs
    /\ calls' = Append(calls, [arg |-> t.arg, ok |-> t.ok, extra |-> e])
    /\ future' = Append(future, [status |-> "pending", value |-> 0, extra_data |-> e])
    /\ IF Due
       THEN ProcessJobs("submit", TimedArg(jobs))
       ELSE /\ jobs' = Append(jobs, Len(future'))
            /\ outcome' = "ok"
            /\ returned' = 0
            /\ UNCHANGED <<pc, tracked, caller, hookLog, released, last_processing,
                           raises, lastPass>>
    /\ UNCHANGED <<parallel, result_hook, executor_params, ctx, clientOpens,
                   clientArgs, clientCloses, now, finished>>

\* the driver calls executor.process_jobs() inside the scope
DriverDrain ==
    /\ pc = "body"
    /\ ctx = "dask"
    /\ ProcessJobs("driver", NoneArg)
    /\ UNCHANGED <<parallel, result_hook, executor_params, ctx, clientOpens,
                   clientArgs, clientCloses, now, future, finished, calls>>

\* the scope body ends normally: dask_ctx resumes after its yield, serial_ctx ends
Exit ==
    /\ pc = "body"
    /\ IF ctx = "dask"
       THEN ProcessJobs("exit", NoneArg)
       ELSE /\ pc' = "exited"
            /\ UNCHANGED <<jobs, tracked, caller, hookLog, released, last_processing,
                           outcome, raises, returned, lastPass>>
    /\ UNCHANGED <<parallel, result_hook, executor_params, ctx, clientOpens,
                   clientArgs, clientCloses, now, future, finished, calls>>

\* an exception leaves the scope body: it is thrown into the generator at its
\* yield, which neither context manager guards, so nothing after the yield runs
BodyError ==
    /\ pc = "body"
    /\ pc' = "aborted"
    /\ UNCHANGED <<parallel, result_hook, executor_params, ctx, clientOpens,
                   clientArgs, clientCloses, jobs, last_processing, now, future,
                   finished, tracked, caller, calls, hookLog, released, outcome, raises,
                   returned, lastPass>>

\* the blocking process_jobs takes the next future from as_completed and runs
\* one iteration of its loop on it
DrainStep ==
    /\ pc = "drain"
    /\ \E j \in tracked : Done(j)
    /\ UNCHANGED <<parallel, result_hook, executor_params, ctx, clientOpens,
                   clientArgs, clientCloses, now, future, finished, calls, lastPass>>
    /\ LET j  == NextCompleted(tracked)
           st == LoopBody(j, [jobs |-> jobs, hookLog |-> hookLog,
                              released |-> released, raised |-> FALSE])
       IN  IF st.raised THEN Raise(caller, st)
           ELSE IF tracked = {j} THEN Return(caller, st)
           ELSE /\ tracked' = tracked \ {j}
                /\ jobs' = st.jobs
                /\ hookLog' = st.hookLog
                /\ released' = st.released
                /\ UNCHANGED <<pc, caller, last_processing, outcome, raises,
                               returned>>

----------------------------------------------------------------------------
(* Environment: the pool and the clock *)

\* a worker finishes the task of future j, or the task raises
Complete(j) ==
    /\ pc \notin {"exited", "aborted", "failed"}
    /\ j \in DOMAIN future
    /\ future[j].status = "pending"
    /\ future' = [future EXCEPT
                    ![j].status = IF calls[j].ok THEN "finished" ELSE "error",
                    ![j].value = IF calls[j].ok THEN TaskResult(calls[j]) ELSE 0]
    /\ finished' = Append(finished, j)
    /\ UNCHANGED <<pc, parallel, result_hook, executor_params, ctx, clientOpens,
                   clientArgs, clientCloses, jobs, last_processing, now, tracked, caller,
                   calls, hookLog, released, outcome, raises, returned, lastPass>>

\* a minute passes; the clock is read by DaskExecutor.submit alone, and once a
\* sweep is due more elapsed time changes nothing it decides
Tick ==
    /\ now < MaxTime
    /\ pc = "body"
    /\ ctx = "dask"
    /\ ~Due
    /\ now' = now + 1
    /\ UNCHANGED <<pc, parallel, result_hook, executor_params, ctx, clientOpens,
                   clientArgs, clientCloses, jobs, last_processing, future, finished,
                   tracked, caller, calls, hookLog, released, outcome, raises, returned,
                   lastPass>>

Next ==
    \/ InContext
    \/ Enter
    \/ \E t \in Tasks : SerialSubmit(t, SplitMeta(t.arg))
    \/ \E t \in Tasks : DaskSubmit(t, SplitMeta(t.arg))
    \/ DriverDrain
    \/ Exit
    \/ BodyError
    \/ DrainStep
    \/ \E j \in 1..MaxJobs : Complete(j)
    \/ Tick

Spec == Init /\ [][Next]_vars

\* creating and entering a context, over the wider parameter values
NextParams ==
    \/ InContext
    \/ Enter

SpecParams == InitParams /\ [][NextParams]_vars

\* the pool runs every dispatched job to its end, and a process_jobs call waiting
\* in as_completed goes on as soon as a future it waits for is done
Fairness ==
    /\ WF_vars(DrainStep)
    /\ \A j \in 1..MaxJobs : WF_vars(Complete(j))

SpecLive == Init /\ [][Next]_vars /\ Fairness

----------------------------------------------------------------------------
(* Properties *)

Count(seq, x) == Cardinality({i \in DOMAIN seq : seq[i] = x})

\* number of hook invocations made for handle (or submit) j
DeliveredCount(j) == Cardinality({k \in DOMAIN hookLog : hookLog[k].job = j})

\* what the hook has to receive for the i-th submit
Expected(i) == [job |-> i, result |-> TaskResult(calls[i]), extra |-> calls[i].extra]

AllTasksOk == \A i \in DOMAIN calls : calls[i].ok

NotDone(j) == ~Done(j)

\* C1: when every submitted task returns and the scope body exits normally, then
\* once the scope has exited the result hook (of a context created with one) has
\* been invoked exactly once per submit, with that submit's result and metadata
\* and nothing else. Holds for serial_ctx and dask_ctx alike.
C1_HookOncePerSubmit ==
    (pc = "exited" /\ result_hook /\ AllTasksOk) =>
        /\ Len(hookLog) = Len(calls)
        /\ \A i \in DOMAIN calls : \E k \in DOMAIN hookLog : hookLog[k] = Expected(i)

C1_Witness ==
    /\ pc = "exited" /\ ctx = "dask" /\ result_hook /\ AllTasksOk
    /\ Len(calls) = 3
    /\ calls[1].arg # calls[2].arg
    /\ hookLog[1].job # 1

\* C2: when the body of a dask_ctx scope raises after jobs were submitted, every
\* handle pending at that moment has been delivered to the hook and released
\* once the scope is left.
C2_DrainOnBodyError ==
    (pc = "aborted" /\ ctx = "dask") =>
        \A j \in Range(jobs) :
            /\ Count(released, j) = 1
            /\ result_hook => DeliveredCount(j) = 1

\* C3: when the blocking drain at scope exit raises the error of the one failing
\* task, the results of all successful jobs have been delivered to the hook.
C3_DrainDeliversAllSuccessful ==
    (/\ pc = "failed" /\ result_hook /\ raises = 1
     /\ Cardinality({i \in DOMAIN calls : ~calls[i].ok}) = 1) =>
        \A i \in DOMAIN calls : calls[i].ok => DeliveredCount(i) = 1

\* C4: in a DaskExecutor with a result hook, whenever the driver is between calls
\* and no call has raised, every handle is either pending (once in _jobs, never
\* delivered, never released) or drained (not in _jobs, delivered exactly once,
\* released exactly once).
C4_PendingOrDrained ==
    (ctx = "dask" /\ result_hook /\ raises = 0 /\ pc \in {"body", "exited", "aborted"}) =>
        \A j \in DOMAIN future :
            \/ Count(jobs, j) = 1 /\ DeliveredCount(j) = 0 /\ Count(released, j) = 0
            \/ Count(jobs, j) = 0 /\ DeliveredCount(j) = 1 /\ Count(released, j) = 1

C4_Witness ==
    /\ ctx = "dask" /\ result_hook /\ raises = 0 /\ pc = "body"
    /\ lastPass.kind = "sweep"
    /\ Len(future) = 3
    /\ \E j \in DOMAIN future : Count(jobs, j) = 1
    /\ \E j \in DOMAIN future : DeliveredCount(j) = 1

C6_SweepSplitsPending ==
    [][(/\ ctx = "dask" /\ pc = "body"
        /\ Len(future') = Len(future) + 1
        /\ Due /\ jobs # <<>>
        /\ \A j \in Range(jobs) : ~Failed(j)) =>
            LET done == SelectSeq(jobs, Done)
                pend == SelectSeq(jobs, NotDone)
            IN  /\ released' = released \o done
                /\ hookLog' = IF result_hook
                              THEN hookLog \o [k \in 1..Len(done) |-> HookEntry(done[k])]
                              ELSE hookLog
                /\ jobs' = Append(pend, Len(future'))
                /\ Cardinality({j \in Range(jobs') : j \in Range(jobs)})
                     = Cardinality({j \in Range(jobs) : ~Done(j)})
                /\ pc' = "body"]_vars

C6_Witness ==
    /\ ctx = "dask" /\ result_hook /\ pc = "body" /\ outcome = "ok"
    /\ lastPass.by = "submit" /\ lastPass.kind = "sweep"
    /\ Len(hookLog) = lastPass.from + 1
    /\ Len(jobs) = 2 /\ jobs[2] = 3

\* C7: DaskExecutor.submit never waits for a job: the only calls found waiting in
\* as_completed are process_jobs calls made without a list (by the driver, or by
\* dask_ctx at scope exit).
C7_SubmitNeverWaits ==
    pc = "drain" => lastPass.by \in {"driver", "exit"} /\ ~lastPass.given

\* a submit whose timed check fired on an empty pending list has returned
C7_Witness ==
    /\ pc = "body" /\ outcome = "ok"
    /\ lastPass.by = "submit" /\ lastPass.kind = "drain"
    /\ Len(future) = 2 /\ jobs = <<2>>

CallOk(i) == calls[i].ok

\* C8: in a SerialExecutor the hook invocations are exactly those of the submits
\* whose task returned, in submission order, each already made when its submit
\* returns, and submit returns the task's result; nothing is left pending.
C8_SerialHookInOrder ==
    ctx = "serial" =>
        LET ok == SelectSeq([i \in 1..Len(calls) |-> i], CallOk)
        IN  /\ Len(hookLog) = IF result_hook THEN Len(ok) ELSE 0
            /\ \A k \in DOMAIN hookLog : hookLog[k] = Expected(ok[k])
            /\ outcome = "ok" =>
                   /\ calls[Len(calls)].ok
                   /\ returned = TaskResult(calls[Len(calls)])
                   /\ result_hook => hookLog[Len(hookLog)] = Expected(Len(calls))
            /\ jobs = <<>> /\ tracked = {} /\ pc # "drain"

C8_Witness ==
    /\ ctx = "serial" /\ result_hook /\ outcome = "ok"
    /\ Len(hookLog) = 3
    /\ calls[1].arg # calls[2].arg

\* C9: a dask_ctx scope that has been left, on any path, has opened its client
\* exactly once and closed it exactly once.
C9_ClientOpenedAndClosedOnce ==
    (ctx = "dask" /\ pc \in {"exited", "aborted", "failed"}) =>
        clientOpens = 1 /\ clientCloses = 1

\* C10: with options.parallel false, in_context yields the serial context and no
\* Client is constructed at any point of the scope; the parameter mapping is not
\* even read.
C10_SerialOpensNoClient ==
    ~parallel =>
        /\ ctx \in {"none", "serial"}
        /\ clientOpens = 0
        /\ clientArgs = <<>>
        /\ \A k \in DOMAIN executor_params : executor_params[k].type = "str"

C10_Witness ==
    /\ ~parallel /\ pc = "exited" /\ Len(calls) = 3
    /\ \E k \in DOMAIN executor_params : IsDecimal(executor_params[k].text)

\* a step of the driver that is a process_jobs() call without a list
BlockingCall == DriverDrain \/ (Exit /\ ctx = "dask")

\* C11: process_jobs() called while _jobs is empty returns at once and without
\* error, calls no hook, releases nothing and leaves _jobs empty: the executor
\* and the pool are as before, so repeating the call changes nothing either.
C11_EmptyDrainIsNoOp ==
    [][(BlockingCall /\ jobs = <<>>) =>
            /\ pc' \in {"body", "exited"}
            /\ outcome' = "ok"
            /\ raises' = raises
            /\ jobs' = <<>>
            /\ UNCHANGED <<hookLog, released, tracked, caller, future, finished,
                           last_processing, returned>>]_vars

C11_Witness ==
    /\ ctx = "dask" /\ result_hook /\ pc = "body" /\ outcome = "ok"
    /\ lastPass.by = "driver" /\ lastPass.kind = "drain"
    /\ jobs = <<>>
    /\ Len(hookLog) >= 1
    /\ lastPass.from = Len(hookLog)

\* a step in which a process_jobs pass reaches a handle whose task failed: the
\* blocking loop takes it from as_completed, or the list walked by a submit holds it
ReachesFailed ==
    \/ /\ pc = "drain" /\ tracked' # tracked
       /\ Failed(NextCompleted(tracked))
    \/ /\ pc = "body" /\ ctx = "dask"
       /\ Len(future') = Len(future) + 1
       /\ Due
       /\ \E j \in Range(jobs) : Failed(j)

\* the error leaves the pass: the call raises, and the failed handle is neither
\* handed to the hook nor released
ErrorPropagates ==
    /\ outcome' = "raised"
    /\ raises' = raises + 1
    /\ pc' \in {"body", "failed"}
    /\ \A j \in DOMAIN future : Failed(j) => Count(released', j) = Count(released, j)

C13_SerialFailurePropagates ==
    [][(/\ ctx = "serial"
        /\ Len(calls') = Len(calls) + 1
        /\ ~calls'[Len(calls')].ok) =>
            /\ outcome' = "raised"
            /\ raises' = raises + 1
            /\ hookLog' = hookLog
            /\ returned' = returned
            /\ pc' = "body"]_vars

C13_Witness ==
    /\ ctx = "serial" /\ result_hook /\ outcome = "raised"
    /\ Len(calls) = 3 /\ ~calls[3].ok
    /\ Len(hookLog) = 2

\* what float(text) accepts, exponents and the words inf/nan apart: an optional
\* sign, then digits with at most one point and at least one digit
Unsigned(s) == IF s # <<>> /\ s[1] \in {"-", "+"} THEN Tail(s) ELSE s
IsPoint(c) == c = "."
IsDigit(c) == c \in Range(DigitChars)
IsFloatLiteral(s) ==
    /\ \A i \in DOMAIN Unsigned(s) : IsDigit(Unsigned(s)[i]) \/ IsPoint(Unsigned(s)[i])
    /\ Len(SelectSeq(Unsigned(s), IsPoint)) <= 1
    /\ Len(SelectSeq(Unsigned(s), IsDigit)) >= 1

\* what int(text) accepts: an optional sign, then digits
IsIntLiteral(s) == IsDecimal(Unsigned(s))
SignedIntOf(s) ==
    IF s[1] = "-" THEN 0 - IntOf(Unsigned(s)) ELSE IntOf(Unsigned(s))

\* the value the pool has to receive for parameter value v
NativeValue(v) ==
    IF v.type = "str" /\ IsIntLiteral(v.text) THEN IntVal(SignedIntOf(v.text))
    ELSE IF v.type = "str" /\ IsFloatLiteral(v.text) THEN FloatVal(v.text)
    ELSE v

\* C14: entering a dask context hands the pool the connection parameters with
\* the same keys, every string that reads as a number turned into that number
\* (int when it reads as one, float otherwise) and every other value unchanged.
C14_NumericParamsNative ==
    [][(pc = "created" /\ ctx = "dask" /\ pc' = "body") =>
            /\ DOMAIN clientArgs' = DOMAIN executor_params
            /\ \A k \in DOMAIN executor_params :
                    clientArgs'[k] = NativeValue(executor_params[k])]_vars

\* a step that is a DaskExecutor.submit call
SubmitStep == ctx = "dask" /\ pc = "body" /\ Len(future') = Len(future) + 1

C16_SweepExaminesNewHandle ==
    [][(SubmitStep /\ Due) => Len(future') \in Range(TimedArg(jobs).list)]_vars

\* C16 amended: the timed check runs before the append: the list it walks never
\* holds the handle of this submit, which is neither handed to the hook nor
\* released by this submit, and is appended at the end of _jobs once the check
\* has returned.
C16_AppendAfterCheck ==
    [][SubmitStep =>
        /\ Due => Len(future') \notin Range(TimedArg(jobs).list)
        /\ Count(released', Len(future')) = 0
        /\ \A k \in DOMAIN hookLog' : hookLog'[k].job # Len(future')
        /\ outcome' = "ok" =>
                /\ jobs' # <<>>
                /\ jobs'[Len(jobs')] = Len(future')
                /\ Count(jobs', Len(future')) = 1]_vars

C16_Witness ==
    /\ ctx = "dask" /\ result_hook /\ pc = "body" /\ outcome = "ok"
    /\ lastPass.by = "submit" /\ lastPass.kind = "sweep"
    /\ Len(hookLog) = lastPass.from + 2
    /\ jobs = <<3>> /\ ~Done(3)

\* C17: outside a pass, every handle that was submitted, has not failed and has
\* not been released is in _jobs, whatever errors earlier passes raised.
C17_NoHandleDropped ==
    (ctx = "dask" /\ pc # "drain") =>
        \A j \in DOMAIN future :
            (~Failed(j) /\ Count(released, j) = 0) => Count(jobs, j) = 1

\* C18 as stated: the hook invocations of one pass over the list given by
\* submit are in the order in which their jobs completed.
C18_SweepInCompletionOrder ==
    (ctx = "dask" /\ lastPass.kind = "sweep") =>
        \A a, b \in (lastPass.from + 1)..Len(hookLog) :
            a < b => Pos(hookLog[a].job) < Pos(hookLog[b].job)

\* C18 amended: the hook invocations of one pass over the list given by submit
\* are in the order of _jobs, which is the order of submission, whatever the
\* order in which the jobs completed.
C18_SweepInSubmissionOrder ==
    (ctx = "dask" /\ lastPass.kind = "sweep") =>
        \A a, b \in (lastPass.from + 1)..Len(hookLog) :
            a < b => hookLog[a].job < hookLog[b].job

C18_Witness ==
    /\ ctx = "dask" /\ lastPass.kind = "sweep"
    /\ Len(hookLog) = lastPass.from + 2
    /\ Pos(hookLog[lastPass.from + 1].job) > Pos(hookLog[lastPass.from + 2].job)

\* C19: a process_jobs() call waiting in as_completed, all of whose jobs end
\* without error, eventually returns; when it returns after a run without task
\* error, _jobs is empty and every dispatched handle has been released (and
\* handed to the hook once, if there is one); and as long as a job it waits for
\* is not done, no step returns from it.
C19_BlockingDrainReturns ==
    /\ (pc = "drain" /\ \A j \in tracked : calls[j].ok)
            ~> (pc \in {"body", "exited"} /\ outcome = "ok" /\ jobs = <<>>)
    /\ [][(pc = "drain" /\ pc' # "drain" /\ AllTasksOk) =>
            /\ outcome' = "ok"
            /\ jobs' = <<>>
            /\ \A j \in DOMAIN future :
                  /\ Count(released', j) = 1
                  /\ result_hook =>
                        Cardinality({k \in DOMAIN hookLog' : hookLog'[k].job = j}) = 1]_vars
    /\ [][(pc = "drain" /\ \E j \in tracked : ~Done(j)) =>
            (pc' = "drain" \/ outcome' = "raised")]_vars

C19_Witness ==
    /\ ctx = "dask" /\ result_hook /\ pc = "exited" /\ outcome = "ok"
    /\ AllTasksOk
    /\ lastPass.by = "exit" /\ lastPass.from = 0
    /\ Len(hookLog) = 3 /\ Len(released) = 3
    /\ hookLog[1].job = 2

====
